---- MODULE Spec2Model ----
(***************************************************************************)
(* Ceres runtime: one Runtime handle (Sandbox + engine Instance + Metadata)*)
(* working against a shared Storage.  Operations: Runtime::new, deploy,    *)
(* call, flush.  The bytecode engine is a black box: one invocation is a   *)
(* finite run of host calls (set_storage, instantiate) followed by the way *)
(* the run ends (normal return, return-data host call, trap, out of gas,   *)
(* host fault).                                                            *)
(***************************************************************************)
EXTENDS Integers, Sequences, FiniteSets, TLC

VARIABLES storage, rt, result, last, legit, flushed, supplied, engine

vars == <<storage, rt, result, last, legit, flushed, supplied, engine>>

(***************************************************************************)
(* Bounds                                                                  *)
(***************************************************************************)
MaxHostCalls == 2
MaxQueue == 2
MaxArgs == 2
MaxCode == 60

(***************************************************************************)
(* Option values: None is the empty sequence, Some(x) the one-element one. *)
(***************************************************************************)
None == <<>>
Some(x) == <<x>>

(***************************************************************************)
(* Input domains                                                           *)
(***************************************************************************)
Hashes == {"0xaa", "0xbb"}
BadHash == "zz"
Keys == {"k"}
Values == {1, 2}
ArgVals == {<<1>>, <<0, 2>>}
RetDatas == {<<1>>, <<9>>}
Salts == {<<5>>}
Methods == {"new", "get", "set", "nosuch"}
DefaultTx == "tx0"
Txs == {"tx1", "tx2"}
OptTxs == {None} \cup {Some(t) : t \in Txs}

SeqsUpTo(S, n) == UNION {[1..k -> S] : k \in 0..n}
ArgLists == SeqsUpTo(ArgVals, MaxArgs)

(***************************************************************************)
(* Storage: code hash -> Option<State>.  A State is a key -> Option<value> *)
(* map; new_state() is the empty map.                                      *)
(***************************************************************************)
new_state == [k \in Keys |-> None]
StorageGet(st, hash) == st[hash]
StorageSet(st, hash, state) == [st EXCEPT ![hash] = Some(state)]

(***************************************************************************)
(* Metadata: constructor and message tables, name -> (selector, args),     *)
(* args being ordered (name, type) pairs.                                  *)
(***************************************************************************)
constructors ==
    [name \in {"new"} |->
        [selector |-> <<155, 174, 157, 94>>, args |-> << <<"init", "bool">> >>]]
messages ==
    [name \in {"get", "set"} |->
        IF name = "get"
        THEN [selector |-> <<47, 134, 91, 217>>, args |-> <<>>]
        ELSE [selector |-> <<99, 58, 165, 81>>,
              args |-> << <<"flag", "bool">>, <<"n", "u32">> >>]]

(***************************************************************************)
(* Results                                                                 *)
(***************************************************************************)
Ok(v) == [ok |-> TRUE, err |-> "", cause |-> "", val |-> v]
Err(e, c) == [ok |-> FALSE, err |-> e, cause |-> c, val |-> <<>>]
Unit == <<>>

(***************************************************************************)
(* ReturnCode: the numbered enumeration and the conversion From<i32>.      *)
(***************************************************************************)
I32Min == -2147483647 - 1
I32Max == 2147483647

ReturnCode ==
    [Success |-> 0, CalleeTrapped |-> 1, CalleeReverted |-> 2, KeyNotFound |-> 3,
     BelowSubsistenceThreshold |-> 4, TransferFailed |-> 5,
     NewContractNotFunded |-> 6, CodeNotFound |-> 7, NotCallable |-> 8,
     LoggingDisabled |-> 9, UnExpectedReturnCode |-> 10]

fromNoLogging(n) ==
    CASE n = 0 -> "Success"
      [] n = 1 -> "CalleeTrapped"
      [] n = 2 -> "CalleeReverted"
      [] n = 3 -> "KeyNotFound"
      [] n = 4 -> "BelowSubsistenceThreshold"
      [] n = 5 -> "TransferFailed"
      [] n = 6 -> "NewContractNotFunded"
      [] n = 7 -> "CodeNotFound"
      [] n = 8 -> "NotCallable"
      [] OTHER -> "UnExpectedReturnCode"
from(n) ==
    CASE n = 0 -> "Success"
      [] n = 1 -> "CalleeTrapped"
      [] n = 2 -> "CalleeReverted"
      [] n = 3 -> "KeyNotFound"
      [] n = 4 -> "BelowSubsistenceThreshold"
      [] n = 5 -> "TransferFailed"
      [] n = 6 -> "NewContractNotFunded"
      [] n = 7 -> "CodeNotFound"
      [] n = 8 -> "NotCallable"
      [] n = 9 -> "LoggingDisabled"
      [] OTHER -> "UnExpectedReturnCode"

(***************************************************************************)
(* Sandbox                                                                 *)
(***************************************************************************)
SandboxNew(state) ==
    [state |-> state, tx |-> DefaultTx, input |-> None, ret |-> None,
     instantiates |-> <<>>]

instantiateFront(sb, code_hash, gas_left, data, salt) ==
    [sandbox |-> [sb EXCEPT !.instantiates =
                      << [code_hash |-> code_hash, endowment |-> 3,
                          data |-> data, gas_left |-> gas_left,
                          salt |-> salt] >> \o @],
     ret |-> Ok(<<code_hash, [flags |-> 0, data |-> <<>>], 0>>),
     gas_left |-> gas_left]
instantiateOverGas(sb, code_hash, gas_left, data, salt) ==
    [sandbox |-> [sb EXCEPT !.instantiates =
                      Append(@, [code_hash |-> code_hash, endowment |-> 3,
                                 data |-> data, gas_left |-> gas_left + 1,
                                 salt |-> salt])],
     ret |-> Ok(<<code_hash, [flags |-> 0, data |-> <<>>], 0>>),
     gas_left |-> gas_left]
instantiateInline(sb, code_hash, gas_left, data, salt) ==
    [sandbox |-> [sb EXCEPT !.instantiates =
                      Append(@, [code_hash |-> code_hash, endowment |-> 3,
                                 data |-> data, gas_left |-> gas_left,
                                 salt |-> salt]),
                            !.input = Some(data)],
     ret |-> Ok(<<code_hash, [flags |-> 0, data |-> <<>>], 0>>),
     gas_left |-> gas_left]
\* Sandbox::instantiate: queue the request, do not run it.  gas_left is the
\* caller's meter (gas_meter.gas_left), passed by mutable reference: the
\* result carries the meter as the call leaves it.
instantiate(sb, code_hash, gas_left, data, salt) ==
    [sandbox |-> [sb EXCEPT !.instantiates =
                      Append(@, [code_hash |-> code_hash, endowment |-> 3,
                                 data |-> data, gas_left |-> gas_left,
                                 salt |-> salt])],
     ret |-> Ok(<<code_hash, [flags |-> 0, data |-> <<>>], 0>>),
     gas_left |-> gas_left]

\* Host call: write one key of the working State.
SandboxSetStorage(sb, key, value) ==
    [sb EXCEPT !.state[key] = Some(value)]

\* Return-data host call: record the output buffer.
SandboxReturn(sb, data) == [sb EXCEPT !.ret = Some(data)]

(***************************************************************************)
(* The engine.  A run is the host calls the bytecode makes, in order, and  *)
(* the way it ends.                                                        *)
(***************************************************************************)
SetStorageCalls == [fn : {"set_storage"}, key : Keys, value : Values]
\* seal_instantiate as the contract issues it: the endowment is part of the
\* contract's request.
Endowments == {3, 5}
InstantiateCalls ==
    [fn : {"instantiate"}, code_hash : {"0xbb"}, endowment : Endowments,
     data : {<<7>>}, salt : Salts]
Ends == {"ok", "return", "revert", "trap", "outofgas", "fault"}
FailEnds == {"revert", "trap", "outofgas", "fault"}

\* The runs over a set of host calls, a set of endings and a set of
\* return-data payloads.
RunsOver(hostcalls, ends, datas) ==
    [calls : SeqsUpTo(hostcalls, MaxHostCalls),
     end : ends \cap {"ok", "trap", "outofgas", "fault"}, data : {<<>>}]
    \cup [calls : SeqsUpTo(hostcalls, MaxHostCalls),
          end : ends \cap {"return", "revert"}, data : datas]

GasBudget == 3
HostCallCost == 1

\* The host calls of a run, in order.  Each is charged to the meter before
\* it is performed; an instantiate host call hands the charged meter to
\* Sandbox::instantiate.
RECURSIVE ApplyCalls(_, _, _)
ApplyCalls(sb, gas, calls) ==
    IF calls = <<>> THEN sb
    ELSE LET c == Head(calls)
             g == gas - HostCallCost
         IN IF c.fn = "set_storage"
            THEN ApplyCalls(SandboxSetStorage(sb, c.key, c.value), g, Tail(calls))
            ELSE LET r == instantiate(sb, c.code_hash, g, c.data, c.salt)
                 IN ApplyCalls(r.sandbox, r.gas_left, Tail(calls))

\* The instantiate host calls of a run, in order: the contract's request,
\* the meter handed to Sandbox::instantiate and the meter it left, the
\* Sandbox before and after it, and what it returned.
RECURSIVE InvokeLog(_, _, _)
InvokeLog(sb, gas, calls) ==
    IF calls = <<>> THEN <<>>
    ELSE LET c == Head(calls)
             g == gas - HostCallCost
         IN IF c.fn = "set_storage"
            THEN InvokeLog(SandboxSetStorage(sb, c.key, c.value), g, Tail(calls))
            ELSE LET r == instantiate(sb, c.code_hash, g, c.data, c.salt)
                 IN << [call |-> c, meter |-> g, left |-> r.gas_left, pre |-> sb,
                        post |-> r.sandbox, ret |-> r.ret] >>
                    \o InvokeLog(r.sandbox, r.gas_left, Tail(calls))

\* Instance::invoke(export, &[], &mut sandbox)
Invoke(export, sb, run) ==
    LET sb1 == ApplyCalls(sb, GasBudget, run.calls)
    IN CASE run.end = "ok" -> [sandbox |-> sb1, res |-> Ok(Unit)]
         [] run.end \in {"return", "revert"} ->
                [sandbox |-> SandboxReturn(sb1, run.data), res |-> Err("ReturnData", "")]
         [] run.end = "trap" -> [sandbox |-> sb1, res |-> Err("Trap", "")]
         [] run.end = "outofgas" -> [sandbox |-> sb1, res |-> Err("OutOfGas", "")]
         [] OTHER -> [sandbox |-> sb1, res |-> Err("OutOfBounds", "")]

\* What the engine is invoked with and what its run asked of the host.
EngineSaw(export, sb, run) ==
    [export |-> export, input |-> sb.input,
     log |-> InvokeLog(sb, GasBudget, run.calls)]

(***************************************************************************)
(* util                                                                    *)
(***************************************************************************)
RECURSIVE Concat(_)
Concat(ss) == IF ss = <<>> THEN <<>> ELSE Head(ss) \o Concat(Tail(ss))

parse_args(selector, args, tys) ==
    IF Len(args) # Len(tys) THEN Err("WrongArgumentLength", "")
    ELSE Ok(selector \o Concat(args))

parse_code_hash(h) == IF h \in Hashes THEN Ok(h) ELSE Err("DecodeContractFailed", "")

(***************************************************************************)
(* Runtime                                                                 *)
(***************************************************************************)
sandbox == rt[1].sandbox
codeHash == rt[1].hash


\* Runtime::new: the prior State of the code hash, or a fresh one.
LoadStateFresh(st, hash) == new_state
LoadState(st, hash) ==
    IF StorageGet(st, hash) # None THEN StorageGet(st, hash)[1] ELSE new_state

\* deploy / call: if let Some(tx) = tx { sandbox.tx = tx }
SetTxOrReset(sb, tx) == [sb EXCEPT !.tx = IF tx # None THEN tx[1] ELSE DefaultTx]
SetTx(sb, tx) == IF tx # None THEN [sb EXCEPT !.tx = tx[1]] ELSE sb

\* deploy / call: table.get(method).ok_or(GetMethodFailed { name })
ResolveOrAny(table, method) ==
    IF method \in DOMAIN table THEN Ok(table[method])
    ELSE Ok(table[CHOOSE n \in DOMAIN table : TRUE])
Resolve(table, method) ==
    IF method \in DOMAIN table THEN Ok(table[method]) ELSE Err("GetMethodFailed", method)

\* deploy / call: tys.iter().map(|ty| ty.1).collect()
TysOfButLast(args) == [i \in 1..(Len(args) - 1) |-> args[i][2]]
TysOf(args) == [i \in 1..Len(args) |-> args[i][2]]

\* deploy / call: bm.input = Some(payload)
InstallInputIfEmpty(sb, payload) ==
    IF sb.input = None THEN [sb EXCEPT !.input = Some(payload)] ELSE sb
InstallInput(sb, payload) == [sb EXCEPT !.input = Some(payload)]

\* deploy: invoke(..).map_err(DeployContractFailed)?; Ok(())
DeployResult(res) ==
    IF res.ok THEN Ok(Unit) ELSE Err("DeployContractFailed", res.err)

\* call: the output buffer, when there is one, wins over the invoke result
CallResultErrFirst(ret, res) ==
    IF ~res.ok THEN Err("CallContractFailed", res.err)
    ELSE IF ret # None THEN Ok(ret[1]) ELSE Ok(<<>>)
CallResult(ret, res) ==
    IF ret # None THEN Ok(ret[1])
    ELSE IF res.ok THEN Ok(<<>>) ELSE Err("CallContractFailed", res.err)

\* call: bm.ret.take()
TakeRet(sb) == [sb EXCEPT !.ret = None]

\* flush: storage.set(code_hash, sandbox.state.clone())
FlushStorageAll(st, hash, state) == [h \in DOMAIN st |-> Some(state)]
FlushStorage(st, hash, state) == StorageSet(st, hash, state)

NewFaults == {"none", "ParseWasmModuleFailed", "CalcuateMemoryLimitFailed",
              "AllocMemoryFailed", "SerializeFailed", "InitModuleFailed"}

\* What the last operation was given and how the engine run ended ("none":
\* the engine was not reached), with the bytes handed to the return-data
\* host call and the transaction context the engine ran under.  The variable
\* engine holds what the engine was invoked with by the last operation (None
\* when the operation did not invoke it) and the run's instantiate log.
Op(op, method, args, tx, end, data, seen) ==
    [op |-> op, method |-> method, args |-> args, tx |-> tx, end |-> end,
     data |-> data, seen |-> seen]

Init ==
    /\ storage = [h \in Hashes |->
                     IF h = "0xaa" THEN None ELSE Some([k \in Keys |-> Some(2)])]
    /\ rt = None
    /\ result = Ok(Unit)
    /\ last = Op("init", "", <<>>, None, "none", <<>>, "")
    /\ legit = [h \in Hashes |-> {storage[h]}]
    /\ flushed = [h \in Hashes |-> None]
    /\ supplied = DefaultTx
    /\ engine = None

new(hash, fault) ==
    LET ph == parse_code_hash(hash) IN
    /\ last' = Op("new", "", <<>>, None, "none", <<>>, "")
    /\ engine' = None
    /\ UNCHANGED <<storage, flushed>>
    /\ IF fault \in {"ParseWasmModuleFailed", "CalcuateMemoryLimitFailed",
                     "AllocMemoryFailed"}
       THEN /\ result' = Err(fault, "")
            /\ UNCHANGED <<rt, legit, supplied>>
       ELSE IF ~ph.ok
       THEN /\ result' = ph
            /\ UNCHANGED <<rt, legit, supplied>>
       ELSE IF fault # "none"
       THEN /\ result' = Err(fault, "")
            /\ UNCHANGED <<rt, legit, supplied>>
       ELSE LET state == LoadState(storage, ph.val) IN
            /\ rt' = Some([hash |-> ph.val, sandbox |-> SandboxNew(state)])
            /\ result' = Ok(Unit)
            /\ legit' = [legit EXCEPT ![ph.val] = @ \cup {Some(state)}]
            /\ supplied' = DefaultTx

deploy(method, args, tx, runs) ==
    /\ rt # None
    /\ UNCHANGED <<storage, flushed>>
    /\ supplied' = IF tx # None THEN tx[1] ELSE supplied
    /\ LET sb0 == SetTx(sandbox, tx)
           m == Resolve(constructors, method)
       IN IF ~m.ok
          THEN /\ rt' = [rt EXCEPT ![1].sandbox = sb0]
               /\ result' = m
               /\ last' = Op("deploy", method, args, tx, "none", <<>>, "")
               /\ engine' = None
               /\ UNCHANGED legit
          ELSE LET p == parse_args(m.val.selector, args, TysOf(m.val.args)) IN
               IF ~p.ok
               THEN /\ rt' = [rt EXCEPT ![1].sandbox = sb0]
                    /\ result' = p
                    /\ last' = Op("deploy", method, args, tx, "none", <<>>, "")
                    /\ engine' = None
                    /\ UNCHANGED legit
               ELSE \E run \in runs :
                    LET bm == InstallInput(sb0, p.val)
                        r == Invoke("deploy", bm, run) IN
                    /\ Len(r.sandbox.instantiates) <= MaxQueue
                    /\ rt' = [rt EXCEPT ![1].sandbox = r.sandbox]
                    /\ result' = DeployResult(r.res)
                    /\ last' = Op("deploy", method, args, tx, run.end, run.data, bm.tx)
                    /\ engine' = Some(EngineSaw("deploy", bm, run))
                    /\ legit' = IF run.end = "ok"
                                THEN [legit EXCEPT ![codeHash] =
                                         @ \cup {Some(r.sandbox.state)}]
                                ELSE legit

call(method, args, tx, runs) ==
    /\ rt # None
    /\ UNCHANGED <<storage, flushed>>
    /\ supplied' = IF tx # None THEN tx[1] ELSE supplied
    /\ LET sb0 == SetTx(sandbox, tx)
           m == Resolve(messages, method)
       IN IF ~m.ok
          THEN /\ rt' = [rt EXCEPT ![1].sandbox = sb0]
               /\ result' = m
               /\ last' = Op("call", method, args, tx, "none", <<>>, "")
               /\ engine' = None
               /\ UNCHANGED legit
          ELSE LET p == parse_args(m.val.selector, args, TysOf(m.val.args)) IN
               IF ~p.ok
               THEN /\ rt' = [rt EXCEPT ![1].sandbox = sb0]
                    /\ result' = p
                    /\ last' = Op("call", method, args, tx, "none", <<>>, "")
                    /\ engine' = None
                    /\ UNCHANGED legit
               ELSE \E run \in runs :
                    LET bm == InstallInput(sb0, p.val)
                        r == Invoke("call", bm, run) IN
                    /\ Len(r.sandbox.instantiates) <= MaxQueue
                    /\ rt' = [rt EXCEPT ![1].sandbox = TakeRet(r.sandbox)]
                    /\ result' = CallResult(r.sandbox.ret, r.res)
                    /\ last' = Op("call", method, args, tx, run.end, run.data, bm.tx)
                    /\ engine' = Some(EngineSaw("call", bm, run))
                    /\ legit' = IF run.end \in {"ok", "return"}
                                THEN [legit EXCEPT ![codeHash] =
                                         @ \cup {Some(r.sandbox.state)}]
                                ELSE legit

flush(setOk) ==
    /\ rt # None
    /\ last' = Op("flush", "", <<>>, None, "none", <<>>, "")
    /\ engine' = None
    /\ UNCHANGED <<rt, legit, supplied>>
    /\ IF setOk
       THEN /\ storage' = FlushStorage(storage, codeHash, sandbox.state)
            /\ flushed' = [flushed EXCEPT ![codeHash] = Some(sandbox.state)]
            /\ result' = Ok(Unit)
       ELSE /\ result' = Err("SetStorageFailed", "")
            /\ UNCHANGED <<storage, flushed>>

\* A host-returned integer is converted: ReturnCode::from(n).
convert(n) ==
    /\ n \in I32Min..I32Max
    /\ result' = Ok(from(n))
    /\ last' = Op("from", "", <<n>>, None, "none", <<>>, "")
    /\ UNCHANGED <<storage, rt, legit, flushed, supplied, engine>>

(***************************************************************************)
(* Spec: persistence.  Contracts that write their State, every way a run   *)
(* can end, Runtimes over either code hash created and flushed against the *)
(* Storage, which starts without an entry for one code hash and with one   *)
(* for the other.                                                          *)
(***************************************************************************)
StoreRuns == RunsOver(SetStorageCalls, Ends, {<<9>>})

Next ==
    \/ \E hash \in Hashes \cup {BadHash},
             fault \in {"none", "AllocMemoryFailed", "InitModuleFailed"} : new(hash, fault)
    \/ \E method \in {"new"}, args \in {<< <<1>> >>} : deploy(method, args, None, StoreRuns)
    \/ \E method \in {"get"}, args \in {<<>>} : call(method, args, None, StoreRuns)
    \/ \E setOk \in BOOLEAN : flush(setOk)

Spec == Init /\ [][Next]_vars

(***************************************************************************)
(* SpecFrame: known and unknown method names, right and wrong argument     *)
(* counts, with and without a transaction; contracts that write State and  *)
(* return data.                                                            *)
(***************************************************************************)
FrameMethods == {"new", "get", "nosuch"}
FrameArgLists == {<<>>, << <<1>> >>}
FrameRuns ==
    RunsOver([fn : {"set_storage"}, key : Keys, value : {2}], Ends \ {"fault"}, RetDatas)

NextFrame ==
    \/ new("0xaa", "none")
    \/ \E method \in FrameMethods, args \in FrameArgLists, tx \in OptTxs :
          deploy(method, args, tx, FrameRuns)
    \/ \E method \in FrameMethods, args \in FrameArgLists, tx \in OptTxs :
          call(method, args, tx, FrameRuns)
    \/ flush(TRUE)

SpecFrame == Init /\ [][NextFrame]_vars

(***************************************************************************)
(* SpecArgs: argument marshalling.  Every method name with every argument  *)
(* list of up to MaxArgs arguments, on Runtimes over either code hash.     *)
(***************************************************************************)
ArgsRuns == RunsOver({}, Ends, {<<1>>})

NextArgs ==
    \/ \E hash \in Hashes \cup {BadHash}, fault \in NewFaults : new(hash, fault)
    \/ \E method \in Methods, args \in ArgLists : deploy(method, args, None, ArgsRuns)
    \/ \E method \in Methods, args \in ArgLists : call(method, args, None, ArgsRuns)
    \/ flush(TRUE)

SpecArgs == Init /\ [][NextArgs]_vars

(***************************************************************************)
(* SpecQueue: nested instantiation.  Contracts that issue instantiate host *)
(* calls, alone and between State writes, in deploy and in call, in runs   *)
(* that return and runs that trap.                                         *)
(***************************************************************************)
QueueRuns ==
    RunsOver(InstantiateCalls \cup [fn : {"set_storage"}, key : Keys, value : {1}],
             {"ok", "trap"}, {})

NextQueue ==
    \/ new("0xaa", "none")
    \/ deploy("new", << <<1>> >>, None, QueueRuns)
    \/ call("get", <<>>, None, QueueRuns)
    \/ flush(TRUE)

SpecQueue == Init /\ [][NextQueue]_vars

(***************************************************************************)
(* SpecCode: the return-code conversion over the integers around the       *)
(* numbered range and the two ends of the 32-bit signed range.             *)
(***************************************************************************)
CodeInputs == (-MaxCode .. MaxCode) \cup {I32Min, I32Max}

NextCode == \E n \in CodeInputs : convert(n)

SpecCode == Init /\ [][NextCode]_vars

(***************************************************************************)
(* Claims                                                                  *)
(***************************************************************************)
Invocation(op) == op \in {"deploy", "call"}

\* C1: a deploy or call that does not end in success (resolution error,
\* callee reverted, callee trapped, out of gas, host fault) leaves the
\* Sandbox State equal to the State just before the operation.
C1_FailureKeepsState ==
    [][(Invocation(last'.op) /\ (~result'.ok \/ last'.end \in FailEnds))
          => rt'[1].sandbox.state = rt[1].sandbox.state]_vars

\* C2: the State stored under a code hash is always the value present
\* before a Runtime was created (initially, or loaded by Runtime::new) or a
\* State left by a successful invocation.
C2_DurableStateIsLegit == \A h \in Hashes : storage[h] \in legit[h]

\* C3: call with a name missing from the message table, or deploy with a
\* name missing from the constructor table, returns GetMethodFailed, does
\* not reach the engine and leaves the Sandbox State as it was.
C3_UnknownMethod ==
    [][((last'.op = "call" /\ last'.method \notin DOMAIN messages)
        \/ (last'.op = "deploy" /\ last'.method \notin DOMAIN constructors))
          => /\ result' = Err("GetMethodFailed", last'.method)
             /\ last'.end = "none"
             /\ rt'[1].sandbox.state = rt[1].sandbox.state]_vars
C3_Witness ==
    /\ last.op = "call"
    /\ last.method = "nosuch"
    /\ result.err = "GetMethodFailed"
    /\ rt[1].sandbox.state # new_state

\* C4: a deploy or call that fails with a resolution error (unknown method,
\* wrong argument count) leaves the Runtime exactly as it was: transaction
\* context, input buffer, output buffer, nested-call queue and State.
C4_ResolutionErrorFrame ==
    [][(Invocation(last'.op)
        /\ result'.err \in {"GetMethodFailed", "WrongArgumentLength"})
          => rt' = rt]_vars

\* C5: a Runtime created after a flush under the same code hash starts from
\* the flushed State; with no Storage entry for the code hash it starts from
\* new_state().
C5_RoundTrip ==
    [][(last'.op = "new" /\ result'.ok)
          => LET h == rt'[1].hash IN
             /\ flushed[h] # None => rt'[1].sandbox.state = flushed[h][1]
             /\ storage[h] = None => rt'[1].sandbox.state = new_state]_vars
C5_Witness ==
    /\ last.op = "new"
    /\ result.ok
    /\ flushed[rt[1].hash] = Some([k \in Keys |-> Some(2)])
    /\ rt[1].sandbox.state = [k \in Keys |-> Some(2)]

\* C6: only flush changes Storage, and flush changes only the entry of the
\* Runtime's own code hash.
C6_OnlyFlushWrites ==
    [][/\ last'.op # "flush" => storage' = storage
       /\ last'.op = "flush" =>
             \A h \in Hashes \ {rt[1].hash} : storage'[h] = storage[h]]_vars
C6_Witness ==
    /\ last.op = "flush"
    /\ result.ok
    /\ rt[1].hash = "0xaa"
    /\ storage["0xaa"] = Some([k \in Keys |-> None])
    /\ storage["0xbb"] = Some([k \in Keys |-> Some(2)])

C8_TrapNoOutput ==
    [][(last'.op = "call" /\ last'.end \in {"trap", "outofgas"})
          => ~result'.ok]_vars

\* C9: deploy and call replace the Sandbox's transaction context by the
\* supplied one and retain it when none is supplied; the engine runs under
\* the most recently supplied transaction.
C9_TxReplaced ==
    [][Invocation(last'.op)
          => /\ rt'[1].sandbox.tx =
                   IF last'.tx # None THEN last'.tx[1] ELSE rt[1].sandbox.tx
             /\ last'.end # "none" => last'.seen = supplied']_vars
C9_Witness ==
    /\ last.op = "call"
    /\ last.tx = None
    /\ last.end = "ok"
    /\ last.seen = "tx2"
    /\ rt[1].sandbox.tx = "tx2"

RECURSIVE JoinUpTo(_, _)
JoinUpTo(args, n) == IF n = 0 THEN <<>> ELSE JoinUpTo(args, n - 1) \o args[n]

\* C10: for a resolved method, deploy and call fail with WrongArgumentLength
\* exactly when the number of arguments differs from the number of declared
\* parameter types; otherwise the input buffer is the selector followed by
\* the arguments in order.
C10_Marshalling ==
    [][Invocation(last'.op)
          => LET table == IF last'.op = "deploy" THEN constructors ELSE messages IN
             last'.method \in DOMAIN table
                => LET e == table[last'.method] IN
                   /\ (result'.err = "WrongArgumentLength")
                         <=> (Len(last'.args) # Len(e.args))
                   /\ Len(last'.args) = Len(e.args)
                         => rt'[1].sandbox.input =
                               Some(e.selector \o JoinUpTo(last'.args, Len(last'.args)))]_vars
C10_Witness ==
    /\ last.op = "call"
    /\ last.method = "set"
    /\ last.args = << <<0, 2>>, <<1>> >>
    /\ rt[1].sandbox.input = Some(<<99, 58, 165, 81, 0, 2, 1>>)

\* C11: ReturnCode::from(n) yields the code numbered n for n in 0..9 and
\* UnExpectedReturnCode for every other 32-bit signed integer.
C11_FromTotal ==
    [][last'.op = "from"
          => LET n == last'.args[1] IN
             /\ result'.ok
             /\ result'.val \in DOMAIN ReturnCode
             /\ n \in 0..9 => ReturnCode[result'.val] = n
             /\ n \notin 0..9 => result'.val = "UnExpectedReturnCode"]_vars
C11_Witness ==
    /\ last.op = "from"
    /\ last.args = <<9>>
    /\ result.val = "LoggingDisabled"

\* C13: the engine is invoked by deploy and call only, exactly when the
\* method resolved in the operation's own table (constructors for deploy,
\* messages for call) and the arguments marshalled; it then runs the export
\* named after the operation with the input buffer equal to the payload
\* marshalled from this operation's method and arguments.
C13_InvocationOrder ==
    [][last'.op \in {"new", "deploy", "call", "flush"}
          => LET table == IF last'.op = "deploy" THEN constructors ELSE messages
                 ready == /\ Invocation(last'.op)
                          /\ last'.method \in DOMAIN table
                          /\ Len(last'.args) = Len(table[last'.method].args)
             IN /\ (engine' # None) <=> ready
                /\ (last'.end # "none") <=> ready
                /\ ready => /\ engine'[1].export = last'.op
                            /\ engine'[1].input =
                                  Some(table[last'.method].selector
                                       \o JoinUpTo(last'.args, Len(last'.args)))]_vars
C13_Witness ==
    /\ last.op = "deploy"
    /\ last.method = "new"
    /\ last.args = << <<1>> >>
    /\ engine # None
    /\ engine[1].export = "deploy"
    /\ engine[1].input = Some(<<155, 174, 157, 94, 1>>)
    /\ result = Ok(Unit)
    /\ rt[1].sandbox.input = Some(<<155, 174, 157, 94, 1>>)

IsPrefix(a, b) == Len(a) <= Len(b) /\ SubSeq(b, 1, Len(a)) = a
Queued(e) == e.post.instantiates[Len(e.post.instantiates)]
OnRuntime(op) == op \in {"deploy", "call", "flush"}

\* C14: the instantiate queue is an append-only log.  Each
\* Sandbox::instantiate call leaves the queue one entry longer with the
\* entries it held unchanged in place, and across every operation on a
\* Runtime the queue before is a prefix of the queue after, longer by the
\* number of instantiate calls of the run.
C14_AppendOnly ==
    [][OnRuntime(last'.op)
          => LET q == rt[1].sandbox.instantiates
                 qq == rt'[1].sandbox.instantiates
                 log == IF engine' = None THEN <<>> ELSE engine'[1].log
             IN /\ IsPrefix(q, qq)
                /\ Len(qq) = Len(q) + Len(log)
                /\ \A i \in DOMAIN log :
                      /\ Len(log[i].post.instantiates) = Len(log[i].pre.instantiates) + 1
                      /\ IsPrefix(log[i].pre.instantiates, log[i].post.instantiates)
                      /\ qq[Len(q) + i] = Queued(log[i])]_vars
C14_Witness ==
    /\ last.op = "call"
    /\ engine # None
    /\ Len(engine[1].log) = 1
    /\ Len(engine[1].log[1].pre.instantiates) = 1
    /\ Len(rt[1].sandbox.instantiates) = 2
    /\ rt[1].sandbox.instantiates[1].gas_left = 2
    /\ rt[1].sandbox.instantiates[2].gas_left = 1

RECURSIVE QueuedGas(_, _)
QueuedGas(log, n) == IF n = 0 THEN 0 ELSE QueuedGas(log, n - 1) + Queued(log[n]).gas_left

\* C15: within one invocation, after each Sandbox::instantiate call the gas
\* of the entries queued so far plus the gas left on the caller's meter does
\* not exceed the top-level gas budget.
C15_GasReserved ==
    engine # None
       => \A i \in DOMAIN engine[1].log :
             QueuedGas(engine[1].log, i) + engine[1].log[i].left <= GasBudget

\* C16: the gas_left of the entry a Sandbox::instantiate call appends is at
\* most the gas left on the caller's meter when the call is made.
C16_GasBounded ==
    engine # None
       => \A i \in DOMAIN engine[1].log :
             Queued(engine[1].log[i]).gas_left <= engine[1].log[i].meter
C16_Witness ==
    /\ engine # None
    /\ Len(engine[1].log) = 2
    /\ engine[1].log[1].meter = 2
    /\ Queued(engine[1].log[1]).gas_left = 2
    /\ engine[1].log[2].meter = 1
    /\ Queued(engine[1].log[2]).gas_left = 1

\* C17: Sandbox::instantiate returns Ok((code_hash, ExecReturnValue with
\* empty flags and empty data, 0)) and changes nothing but the queue: State,
\* transaction context, input and output buffers are as before the call,
\* and so is the Storage.
C17_NotInline ==
    [][(Invocation(last'.op) /\ engine' # None)
          => /\ storage' = storage
             /\ \A i \in DOMAIN engine'[1].log :
                   LET e == engine'[1].log[i] IN
                   /\ e.ret = Ok(<<e.call.code_hash, [flags |-> 0, data |-> <<>>], 0>>)
                   /\ e.post = [e.pre EXCEPT !.instantiates = e.post.instantiates]
                   /\ e.post.instantiates # e.pre.instantiates]_vars
C17_Witness ==
    /\ last.op = "deploy"
    /\ last.end = "ok"
    /\ engine # None
    /\ Len(engine[1].log) = 1
    /\ engine[1].log[1].pre.state = [k \in Keys |-> Some(1)]
    /\ engine[1].log[1].post.state = [k \in Keys |-> Some(1)]
    /\ engine[1].log[1].post.input = Some(<<155, 174, 157, 94, 1>>)
    /\ engine[1].log[1].ret.ok

\* C18: the entry a Sandbox::instantiate call appends carries the code hash,
\* the endowment, the input data and the salt of the contract's request.
C18_EntryCapturesRequest ==
    engine # None
       => \A i \in DOMAIN engine[1].log :
             LET e == engine[1].log[i] IN
             /\ Queued(e).code_hash = e.call.code_hash
             /\ Queued(e).data = e.call.data
             /\ Queued(e).salt = e.call.salt
             /\ Queued(e).endowment = e.call.endowment

\* C19: when a deploy or call begins, the instantiate queue holds no entry
\* of an earlier deploy or call on the Runtime.
C19_QueuePerInvocation ==
    [][Invocation(last'.op) => rt[1].sandbox.instantiates = <<>>]_vars

\* C20: the output buffer is empty whenever a deploy or call begins, and
\* bytes a call returns were handed to the return-data host call during
\* that call.
C20_OutputFresh ==
    [][Invocation(last'.op)
          => /\ rt[1].sandbox.ret = None
             /\ (last'.op = "call" /\ result'.ok /\ result'.val # <<>>)
                   => (last'.end \in {"return", "revert"}
                       /\ result'.val = last'.data)]_vars

====
